---- MODULE Spec2Model ----
(***************************************************************************)
(* Discord OAuth2 verification bridge: the verification store              *)
(* (utils/verification-store.js), the guild settings store                 *)
(* (utils/guild-settings.js), the verify button and role assignment of     *)
(* bot.js and the /callback route of web.js.                               *)
(*                                                                         *)
(* Strings are sequences of one-character strings, so that                 *)
(* String.prototype.split(":") is computed and not assumed.  Every async   *)
(* handler is cut at its awaits: one action runs from one await to the     *)
(* next, as one turn of the Node.js event loop does.                       *)
(***************************************************************************)
EXTENDS Integers, Sequences, FiniteSets, TLC

VARIABLES
    now,        \* Date.now()
    store,      \* VerificationStore.store : Map userId -> {guildId, state, timestamp}
    disk,       \* data/verified.json
    settings,   \* GuildSettings.settings : Map guildId -> settings object
    guildRoles, \* guild.roles.cache of every guild the client is in
    members,    \* member.roles.cache : the roles held, as <<userId, guildId, roleId>>
    cb,         \* the /callback requests in flight
    btn,        \* the verify_button interactions in flight
    sweep,      \* the cleanup() started by setInterval
    boot,       \* the process: verificationStore.init() and VerificationStore.initialized
    held,       \* the object a caller of getSettings() holds
    acked,      \* history: the sessions whose addPending returned after a write that succeeded
    embed       \* the text replacePlaceholders() rendered last, with its arguments

vars ==
    <<now, store, disk, settings, guildRoles, members, cb, btn, sweep, boot, held, acked,
      embed>>

----------------------------------------------------------------------------
(* Bounds of the model *)

\* number of clock advances in one behaviour
MaxTicks == 2
\* the slots of /callback requests and of verify_button interactions in flight
Callbacks == {1, 2}
Buttons == {1, 2}

----------------------------------------------------------------------------
(* Values *)

\* the value of a missing array element or property
Undefined == <<"undefined">>
\* null: the roleId of DEFAULT_MESSAGES
Null == <<"null">>

U42 == <<"4", "2">>
U99 == <<"9", "9">>
G7 == <<"7">>
G8 == <<"8">>
R1 == <<"r">>
TokA == <<"a">>
TokB == <<"b">>

\* interaction.user.id of the members who click, and the ids the provider confirms
Users == {U42, U99}
\* client.guilds.cache
Guilds == {G7, G8}
Roles == {R1}

\* 5 * 60 * 1000 in verify()
verifyExpirationTime == 5 * 60 * 1000
\* 5 * 60 * 1000 in cleanup()
cleanupExpirationTime == 5 * 60 * 1000

\* config.verification.expirationTime: the value shipped and one an operator sets
ConfiguredWindows == {300000, 600000}

\* the clock advances by a millisecond or by the whole window
TickSteps == {1, verifyExpirationTime}
Ticks(t) == (t \div verifyExpirationTime) + (t % verifyExpirationTime)

----------------------------------------------------------------------------
(* Map helpers: a Map is a function whose DOMAIN is its key set *)

EmptyMap == <<>>
MapHas(m, k) == k \in DOMAIN m
MapSet(m, k, v) == [x \in (DOMAIN m) \cup {k} |-> IF x = k THEN v ELSE m[x]]
MapDelete(m, k) == [x \in (DOMAIN m) \ {k} |-> m[x]]

----------------------------------------------------------------------------
(* web.js: state.split(":") and the array destructuring *)

RECURSIVE SplitAcc(_, _, _)
SplitAcc(s, cur, acc) ==
    IF s = <<>> THEN Append(acc, cur)
    ELSE IF Head(s) = ":" THEN SplitAcc(Tail(s), <<>>, Append(acc, cur))
    ELSE SplitAcc(Tail(s), Append(cur, Head(s)), acc)

split(s) == SplitAcc(s, <<>>, <<>>)

Element(arr, i) == IF i <= Len(arr) THEN arr[i] ELSE Undefined

\* const [userId, guildId, stateToken] = state.split(":")
parseState(raw) ==
    LET f == split(raw)
    IN  [userId |-> Element(f, 1), guildId |-> Element(f, 2), stateToken |-> Element(f, 3)]

RECURSIVE Join(_)
Join(fields) ==
    IF Len(fields) = 0 THEN <<>>
    ELSE IF Len(fields) = 1 THEN fields[1]
    ELSE fields[1] \o <<":">> \o Join(Tail(fields))

----------------------------------------------------------------------------
(* bot.js: generateState.  Math.random() gives no guarantee that two calls *)
(* differ: every token is a possible outcome of every call.                *)

generateState == {TokA, TokB}

----------------------------------------------------------------------------
(* verification-store.js *)

NoData == <<>>
Data(d) == <<d>>

\* mutant: a session whose age equals the window counts as expired
verifyExpiredAtWindow(t, data) == t - data.timestamp >= verifyExpirationTime

verifyExpired(t, data) == t - data.timestamp > verifyExpirationTime

\* mutant: a wrong state deletes the session
verifyDeletesOnMismatch(st, userId, state, t) ==
    IF ~MapHas(st, userId)
    THEN [data |-> NoData, store |-> st, persist |-> FALSE, reason |-> "NotFound"]
    ELSE IF st[userId].state # state
    THEN [data |-> NoData, store |-> MapDelete(st, userId), persist |-> FALSE,
          reason |-> "StateMismatch"]
    ELSE IF t - st[userId].timestamp > verifyExpirationTime
    THEN [data |-> NoData, store |-> MapDelete(st, userId), persist |-> TRUE,
          reason |-> "Expired"]
    ELSE [data |-> Data(st[userId]), store |-> MapDelete(st, userId), persist |-> TRUE,
          reason |-> "Verified"]

\* mutant: an expired session is rejected but stays in the store
verifyKeepsExpired(st, userId, state, t) ==
    IF ~MapHas(st, userId)
    THEN [data |-> NoData, store |-> st, persist |-> FALSE, reason |-> "NotFound"]
    ELSE IF st[userId].state # state
    THEN [data |-> NoData, store |-> st, persist |-> FALSE, reason |-> "StateMismatch"]
    ELSE IF t - st[userId].timestamp > verifyExpirationTime
    THEN [data |-> NoData, store |-> st, persist |-> FALSE, reason |-> "Expired"]
    ELSE [data |-> Data(st[userId]), store |-> MapDelete(st, userId), persist |-> TRUE,
          reason |-> "Verified"]

\* mutant: a successful verify leaves the session in the store
verifyKeepsSession(st, userId, state, t) ==
    IF ~MapHas(st, userId)
    THEN [data |-> NoData, store |-> st, persist |-> FALSE, reason |-> "NotFound"]
    ELSE IF st[userId].state # state
    THEN [data |-> NoData, store |-> st, persist |-> FALSE, reason |-> "StateMismatch"]
    ELSE IF t - st[userId].timestamp > verifyExpirationTime
    THEN [data |-> NoData, store |-> MapDelete(st, userId), persist |-> TRUE,
          reason |-> "Expired"]
    ELSE [data |-> Data(st[userId]), store |-> st, persist |-> TRUE, reason |-> "Verified"]

\* verify(userId, state): what it returns, the store it leaves, whether it persists
verify(st, userId, state, t) ==
    IF ~MapHas(st, userId)
    THEN [data |-> NoData, store |-> st, persist |-> FALSE, reason |-> "NotFound"]
    ELSE IF st[userId].state # state
    THEN [data |-> NoData, store |-> st, persist |-> FALSE, reason |-> "StateMismatch"]
    ELSE IF verifyExpired(t, st[userId])
    THEN [data |-> NoData, store |-> MapDelete(st, userId), persist |-> TRUE,
          reason |-> "Expired"]
    ELSE [data |-> Data(st[userId]), store |-> MapDelete(st, userId), persist |-> TRUE,
          reason |-> "Verified"]

\* mutant: cleanup deletes a session whose age equals the window
cleanupExpiredAtWindow(t, data) == t - data.timestamp >= cleanupExpirationTime

cleanupExpired(t, data) == t - data.timestamp > cleanupExpirationTime

\* cleanup(): the store after the loop and the number of entries deleted
cleanup(st, t) ==
    LET gone == {u \in DOMAIN st : cleanupExpired(t, st[u])}
    IN  [store |-> [u \in (DOMAIN st) \ gone |-> st[u]], cleaned |-> Cardinality(gone)]

\* addPending(userId, guildId, state) up to its await
addPending(st, userId, guildId, state, t) ==
    MapSet(st, userId, [guildId |-> guildId, state |-> state, timestamp |-> t])

\* persist(): Object.fromEntries(this.store), then fs.writeFile
NoFile == [exists |-> FALSE, data |-> EmptyMap]
File(data) == [exists |-> TRUE, data |-> data]
writeFile(old, data, ok) == IF ok THEN File(data) ELSE old

\* new Map(Object.entries(JSON.parse(data))): the entries of the file, property by property
load(file) ==
    [u \in DOMAIN file.data |->
        [guildId |-> file.data[u].guildId, state |-> file.data[u].state,
         timestamp |-> file.data[u].timestamp]]

\* History of the sessions whose addPending returned after its write succeeded.
\* The users whose entry differs between two stores:
Touched(st, st2) ==
    {u \in (DOMAIN st) \cup (DOMAIN st2) :
        ~(MapHas(st, u) /\ MapHas(st2, u) /\ st[u] = st2[u])}
\* a session that was deleted or replaced is no longer awaited
Forget(a, st, st2) == [u \in (DOMAIN a) \ Touched(st, st2) |-> a[u]]
\* the write that held the session of userId succeeded while it is still the stored one
Acknowledge(a, st, userId, written) ==
    IF MapHas(st, userId) /\ MapHas(written, userId) /\ st[userId] = written[userId]
    THEN MapSet(a, userId, st[userId]) ELSE a

----------------------------------------------------------------------------
(* guild-settings.js *)

\* A text is the sequence of its fragments; a placeholder is one fragment.
DEFAULT_MESSAGES ==
    [roleId |-> Null,
     embedTitle |-> <<"Welcome to ", "{servername}", "!">>,
     embedDescription |->
        <<"Before you can start chatting in **", "{servername}",
          "**, you need to verify yourself.\n\nClick the **Verify** button below to get started.">>,
     embedColor |-> <<"#5865F2">>,
     dmTitle |-> <<"Verify Your Account">>,
     dmDescription |->
        <<"Hi ", "{username}", ", click the link below to verify yourself in **",
          "{servername}",
          "**.\n\nThis verification link is secure and will expire in 5 minutes.">>,
     dmColor |-> <<"#5865F2">>]

\* whether getSettings returns the object the Map holds: { ...DEFAULT_MESSAGES } is a
\* new object, this.settings.get(guildId) is the stored one
getSettingsIsLive(s, guildId) == MapHas(s, guildId)

\* mutant: a guild without settings gets the settings of some configured guild
getSettingsShared(s, guildId) ==
    IF MapHas(s, guildId) THEN s[guildId]
    ELSE IF DOMAIN s = {} THEN DEFAULT_MESSAGES
    ELSE s[CHOOSE g \in DOMAIN s : TRUE]

getSettings(s, guildId) == IF ~MapHas(s, guildId) THEN DEFAULT_MESSAGES ELSE s[guildId]

\* mutant: the new settings replace the object instead of being merged into it
updateSettingsReplaces(s, guildId, newSettings) ==
    MapSet(s, guildId,
           [k \in DOMAIN DEFAULT_MESSAGES |->
                IF k \in DOMAIN newSettings THEN newSettings[k] ELSE DEFAULT_MESSAGES[k]])

updateSettings(s, guildId, newSettings) ==
    LET cur == getSettings(s, guildId)
    IN  MapSet(s, guildId,
               [k \in (DOMAIN cur) \cup (DOMAIN newSettings) |->
                    IF k \in DOMAIN newSettings THEN newSettings[k] ELSE cur[k]])

\* Placeholders are fragments of their own, and so are the characters of a
\* replacement pattern ("$" and the character after it).
PServerName == <<"{servername}">>
PUserName == <<"{username}">>

\* data.serverName || "Server": undefined and "" give the literal
orDefault(value, literal) == IF value = Undefined \/ value = <<>> THEN literal ELSE value

\* whether the fragments p stand at position i of s
matchAt(s, p, i) == i + Len(p) - 1 <= Len(s) /\ SubSeq(s, i, i + Len(p) - 1) = p

\* String.prototype.replace with a string as replacement: "$$" inserts "$", "$&" the
\* matched text, "$`" the text before the match, "$'" the text after it
RECURSIVE GetSubstitution(_, _, _, _)
GetSubstitution(matched, before, after, replacement) ==
    IF replacement = <<>> THEN <<>>
    ELSE IF Head(replacement) = "$" /\ Len(replacement) >= 2
                /\ replacement[2] \in {"$", "&", "`", "'"}
    THEN (CASE replacement[2] = "$" -> <<"$">>
            [] replacement[2] = "&" -> matched
            [] replacement[2] = "`" -> before
            [] replacement[2] = "'" -> after)
             \o GetSubstitution(matched, before, after, Tail(Tail(replacement)))
    ELSE <<Head(replacement)>> \o GetSubstitution(matched, before, after, Tail(replacement))

\* text.replace(/pattern/g, replacement): every match from left to right, the
\* inserted text is not searched again
RECURSIVE replaceFrom(_, _, _, _)
replaceFrom(s, i, p, replacement) ==
    IF i > Len(s) THEN <<>>
    ELSE IF matchAt(s, p, i)
    THEN GetSubstitution(p, SubSeq(s, 1, i - 1), SubSeq(s, i + Len(p), Len(s)), replacement)
             \o replaceFrom(s, i + Len(p), p, replacement)
    ELSE <<s[i]>> \o replaceFrom(s, i + 1, p, replacement)

replaceAll(s, p, replacement) == replaceFrom(s, 1, p, replacement)

\* replacePlaceholders(text, data): {servername} first, then {username} in the result
replacePlaceholders(text, data) ==
    replaceAll(replaceAll(text, PServerName, orDefault(data.serverName, <<"Server">>)),
               PUserName, orDefault(data.username, <<"User">>))

\* nothing has been rendered
NoEmbed == [text |-> <<>>, serverName |-> Undefined, username |-> Undefined, out |-> <<>>]

\* a title or description is rendered for an embed; /verifysetup passes no username
RenderEmbed(text, serverName, username) ==
    /\ embed' = [text |-> text, serverName |-> serverName, username |-> username,
                 out |-> replacePlaceholders(text, [serverName |-> serverName,
                                                    username |-> username])]
    /\ UNCHANGED <<now, store, disk, settings, guildRoles, members, cb, btn, sweep, boot,
                   held, acked>>

----------------------------------------------------------------------------
(* bot.js: assignVerifiedRole, cut at its awaits *)

\* client.guilds.cache.get(guildId)
guildFound(guildId) == guildId \in Guilds

\* mutant: the check of settings.roleId is missing
assignPrecheckNoRoleCheck(s, guildId) == IF ~(guildId \in Guilds) THEN "noGuild" ELSE "ok"

\* the checks before guild.members.fetch: "ok" or the reason for returning false
assignPrecheck(s, guildId) ==
    IF ~guildFound(guildId) THEN "noGuild"
    ELSE IF getSettings(s, guildId).roleId = Null THEN "noRoleConfigured"
    ELSE "ok"

\* guild.roles.cache.get(settings.roleId)
roleFound(gr, guildId, roleId) == <<guildId, roleId>> \in gr

\* mutant: the role the member already holds is not noticed
hasRoleNever(m, userId, guildId, roleId) == FALSE

\* member.roles.cache.has(role.id)
hasRole(m, userId, guildId, roleId) == <<userId, guildId, roleId>> \in m

----------------------------------------------------------------------------
(* web.js: GET /callback *)

\* if (!code || !state)
paramsMissing(code, state) == ~code \/ state = <<>>

\* mutant: the provider's id is not compared
idMismatchIgnored(discordId, userId) == FALSE

\* if (discordUser.id !== userId)
idMismatch(discordId, userId) == discordId # userId

PageInvalidParams == "Invalid callback parameters"
PageExpired == "Verification link expired or invalid. Please try again."
PageUserFailed == "User verification failed. Please try again."
PageRoleFailed ==
    "Verification succeeded, but role assignment failed. Please contact an administrator."
PageError == "An error occurred during verification. Please try again."
PageSuccess == "Verification Successful"

IdleCb ==
    [pc |-> "idle", code |-> FALSE, state |-> <<>>, reason |-> "none", data |-> NoData,
     write |-> EmptyMap, calls |-> {}, discordUserId |-> Undefined, roleId |-> Null,
     dm |-> "none", status |-> 0, page |-> "none"]

\* res.status(n).send(page): the request is answered
Respond(c, r, n, page) == cb' = [cb EXCEPT ![c] = [r EXCEPT !.pc = "done", !.status = n, !.page = page]]

\* the call of assignVerifiedRole(userId, guildId) up to guild.members.fetch
StartAssign(c, r) ==
    LET p == parseState(r.state)
        q == [r EXCEPT !.calls = @ \cup {"assignVerifiedRole"}]
        pre == assignPrecheck(settings, p.guildId)
    IN  IF pre # "ok"
        THEN Respond(c, q, 200, PageRoleFailed)
        ELSE cb' = [cb EXCEPT ![c] =
                 [q EXCEPT !.pc = "membersFetch",
                           !.roleId = getSettings(settings, p.guildId).roleId]]

\* mutant: the result of verify() is not checked
AfterVerifyUnchecked(c, r) ==
    cb' = [cb EXCEPT ![c] = [r EXCEPT !.pc = "token", !.calls = @ \cup {"token"}]]

\* mutant: an expired link is answered differently from an unknown one
AfterVerifyLeaksExpiry(c, r) ==
    IF r.data = NoData
    THEN IF r.reason = "Expired" THEN Respond(c, r, 410, PageExpired)
         ELSE Respond(c, r, 200, PageExpired)
    ELSE cb' = [cb EXCEPT ![c] = [r EXCEPT !.pc = "token", !.calls = @ \cup {"token"}]]

\* after verify() returned: the error page, or the POST to the token endpoint
AfterVerify(c, r) ==
    IF r.data = NoData
    THEN Respond(c, r, 200, PageExpired)
    ELSE cb' = [cb EXCEPT ![c] = [r EXCEPT !.pc = "token", !.calls = @ \cup {"token"}]]

\* mutant: a request is not taken up while another one waits for Discord
CallbackRequestLocked(c, code, state) ==
    /\ cb[c].pc = "idle"
    /\ \A d \in Callbacks \ {c} :
          cb[d].pc \notin {"token", "userinfo", "membersFetch", "rolesAdd", "dm"}
    /\ LET r == [cb[c] EXCEPT !.code = code, !.state = state]
       IN  IF paramsMissing(code, state)
           THEN /\ Respond(c, r, 400, PageInvalidParams)
                /\ UNCHANGED store
           ELSE LET p == parseState(state)
                    v == verify(store, p.userId, p.stateToken, now)
                    q == [r EXCEPT !.reason = v.reason, !.data = v.data]
                IN  /\ store' = v.store
                    /\ IF v.persist
                       THEN cb' = [cb EXCEPT ![c] =
                                [q EXCEPT !.pc = "persist", !.write = v.store]]
                       ELSE AfterVerify(c, q)
    /\ acked' = Forget(acked, store, store')
    /\ UNCHANGED <<now, disk, settings, guildRoles, members, btn, sweep, boot, held, embed>>

\* the request arrives; runs to the first await that suspends
CallbackRequest(c, code, state) ==
    /\ cb[c].pc = "idle"
    /\ LET r == [cb[c] EXCEPT !.code = code, !.state = state]
       IN  IF paramsMissing(code, state)
           THEN /\ Respond(c, r, 400, PageInvalidParams)
                /\ UNCHANGED store
           ELSE LET p == parseState(state)
                    v == verify(store, p.userId, p.stateToken, now)
                    q == [r EXCEPT !.reason = v.reason, !.data = v.data]
                IN  /\ store' = v.store
                    /\ IF v.persist
                       THEN cb' = [cb EXCEPT ![c] =
                                [q EXCEPT !.pc = "persist", !.write = v.store]]
                       ELSE AfterVerify(c, q)
    /\ acked' = Forget(acked, store, store')
    /\ UNCHANGED <<now, disk, settings, guildRoles, members, btn, sweep, boot, held, embed>>

\* fs.writeFile of verify()'s persist() ends
CallbackPersistDone(c, ok) ==
    /\ cb[c].pc = "persist"
    /\ disk' = writeFile(disk, cb[c].write, ok)
    /\ AfterVerify(c, [cb[c] EXCEPT !.write = EmptyMap])
    /\ UNCHANGED <<now, store, settings, guildRoles, members, btn, sweep, boot, held, acked,
                   embed>>

\* mutant: when the token endpoint fails the session is put back for a retry
CallbackTokenDoneRestores(c, ok) ==
    /\ cb[c].pc = "token"
    /\ IF ok
       THEN /\ cb' = [cb EXCEPT ![c].pc = "userinfo", ![c].calls = @ \cup {"userinfo"}]
            /\ UNCHANGED store
       ELSE /\ Respond(c, cb[c], 200, PageError)
            /\ store' = MapSet(store, parseState(cb[c].state).userId, cb[c].data[1])
    /\ UNCHANGED <<now, disk, settings, guildRoles, members, btn, sweep, boot, held, acked,
                   embed>>

\* the token endpoint answers; on success GET /users/@me is sent
CallbackTokenDone(c, ok) ==
    /\ cb[c].pc = "token"
    /\ IF ok
       THEN cb' = [cb EXCEPT ![c].pc = "userinfo", ![c].calls = @ \cup {"userinfo"}]
       ELSE Respond(c, cb[c], 200, PageError)
    /\ UNCHANGED <<now, store, disk, settings, guildRoles, members, btn, sweep, boot, held, acked,
                   embed>>

\* /users/@me answers with the account the code belongs to
CallbackUserDone(c, ok, id) ==
    /\ cb[c].pc = "userinfo"
    /\ IF ~ok
       THEN Respond(c, cb[c], 200, PageError)
       ELSE LET r == [cb[c] EXCEPT !.discordUserId = id]
            IN  IF idMismatch(id, parseState(r.state).userId)
                THEN Respond(c, r, 200, PageUserFailed)
                ELSE StartAssign(c, r)
    /\ UNCHANGED <<now, store, disk, settings, guildRoles, members, btn, sweep, boot, held, acked,
                   embed>>

\* mutant: the value assignVerifiedRole returns is not looked at
AssignReturnsIgnored(c, r, result) == Respond(c, r, 200, PageSuccess)

\* the answer of assignVerifiedRole
AssignReturns(c, r, result) ==
    IF result THEN Respond(c, r, 200, PageSuccess) ELSE Respond(c, r, 200, PageRoleFailed)

\* guild.members.fetch ends; role lookup, already-verified check, member.roles.add
CallbackFetchDone(c, ok) ==
    /\ cb[c].pc = "membersFetch"
    /\ LET p == parseState(cb[c].state)
       IN  IF ~ok \/ ~roleFound(guildRoles, p.guildId, cb[c].roleId)
           THEN AssignReturns(c, cb[c], FALSE)
           ELSE IF hasRole(members, p.userId, p.guildId, cb[c].roleId)
           THEN AssignReturns(c, cb[c], TRUE)
           ELSE cb' = [cb EXCEPT ![c].pc = "rolesAdd", ![c].calls = @ \cup {"rolesAdd"}]
    /\ UNCHANGED <<now, store, disk, settings, guildRoles, members, btn, sweep, boot, held, acked,
                   embed>>

\* member.roles.add ends; on success member.send is called.  The API refuses to add
\* a role that has been deleted in the meantime.
CallbackRolesAddDone(c, ok) ==
    /\ cb[c].pc = "rolesAdd"
    /\ LET p == parseState(cb[c].state)
       IN  IF ok /\ roleFound(guildRoles, p.guildId, cb[c].roleId)
           THEN /\ members' = members \cup {<<p.userId, p.guildId, cb[c].roleId>>}
                /\ cb' = [cb EXCEPT ![c].pc = "dm", ![c].calls = @ \cup {"send"}]
           ELSE /\ AssignReturns(c, cb[c], FALSE)
                /\ UNCHANGED members
    /\ UNCHANGED <<now, store, disk, settings, guildRoles, btn, sweep, boot, held, acked,
                   embed>>

\* mutant: an error of member.send reaches the outer catch
CallbackDmDoneEscalates(c, ok) ==
    /\ cb[c].pc = "dm"
    /\ AssignReturns(c, [cb[c] EXCEPT !.dm = IF ok THEN "sent" ELSE "failed"], ok)
    /\ UNCHANGED <<now, store, disk, settings, guildRoles, members, btn, sweep, boot, held, acked,
                   embed>>

\* member.send ends; its error is caught and logged as a warning
CallbackDmDone(c, ok) ==
    /\ cb[c].pc = "dm"
    /\ AssignReturns(c, [cb[c] EXCEPT !.dm = IF ok THEN "sent" ELSE "failed"], TRUE)
    /\ UNCHANGED <<now, store, disk, settings, guildRoles, members, btn, sweep, boot, held, acked,
                   embed>>

\* the answered request leaves the server
CallbackFinish(c) ==
    /\ cb[c].pc = "done"
    /\ cb' = [cb EXCEPT ![c] = IdleCb]
    /\ UNCHANGED <<now, store, disk, settings, guildRoles, members, btn, sweep, boot, held, acked,
                   embed>>

----------------------------------------------------------------------------
(* bot.js: the verify_button interaction *)

IdleBtn == [pc |-> "idle", userId |-> Undefined, guildId |-> Undefined, roleId |-> Null,
            write |-> EmptyMap]

\* the click, up to interaction.guild.members.fetch
ButtonClick(b, userId, guildId) ==
    /\ btn[b].pc = "idle"
    /\ LET s == getSettings(settings, guildId)
       IN  IF s.roleId = Null
           THEN UNCHANGED btn
           ELSE btn' = [btn EXCEPT ![b] =
                    [IdleBtn EXCEPT !.pc = "membersFetch", !.userId = userId,
                                    !.guildId = guildId, !.roleId = s.roleId]]
    /\ UNCHANGED <<now, store, disk, settings, guildRoles, members, cb, sweep, boot, held, acked,
                   embed>>

\* members.fetch ends; the role checks, generateState() and addPending up to its write
ButtonFetchDone(b, ok, state) ==
    /\ btn[b].pc = "membersFetch"
    /\ LET r == btn[b]
       IN  IF \/ ~ok
              \/ ~roleFound(guildRoles, r.guildId, r.roleId)
              \/ hasRole(members, r.userId, r.guildId, r.roleId)
           THEN /\ btn' = [btn EXCEPT ![b] = IdleBtn]
                /\ UNCHANGED store
           ELSE /\ store' = addPending(store, r.userId, r.guildId, state, now)
                /\ btn' = [btn EXCEPT ![b].pc = "persist", ![b].write = store']
    /\ acked' = Forget(acked, store, store')
    /\ UNCHANGED <<now, disk, settings, guildRoles, members, cb, sweep, boot, held, embed>>

\* mutant: a write that fails takes the new session out of the store again
ButtonPersistDoneRollsBack(b, ok) ==
    /\ btn[b].pc = "persist"
    /\ disk' = writeFile(disk, btn[b].write, ok)
    /\ btn' = [btn EXCEPT ![b] = IdleBtn]
    /\ store' = IF ok THEN store ELSE MapDelete(store, btn[b].userId)
    /\ acked' = IF ok THEN Acknowledge(acked, store, btn[b].userId, btn[b].write)
                ELSE Forget(acked, store, store')
    /\ UNCHANGED <<now, settings, guildRoles, members, cb, sweep, boot, held, embed>>

\* mutant: when its write ends addPending puts the Map it wrote back as the store
ButtonPersistDoneWritesBack(b, ok) ==
    /\ btn[b].pc = "persist"
    /\ disk' = writeFile(disk, btn[b].write, ok)
    /\ btn' = [btn EXCEPT ![b] = IdleBtn]
    /\ store' = btn[b].write
    /\ acked' = Forget(acked, store, store')
    /\ UNCHANGED <<now, settings, guildRoles, members, cb, sweep, boot, held, embed>>

\* fs.writeFile of addPending's persist() ends; the link is sent
ButtonPersistDone(b, ok) ==
    /\ btn[b].pc = "persist"
    /\ disk' = writeFile(disk, btn[b].write, ok)
    /\ btn' = [btn EXCEPT ![b] = IdleBtn]
    /\ acked' = IF ok THEN Acknowledge(acked, store, btn[b].userId, btn[b].write) ELSE acked
    /\ UNCHANGED <<now, store, settings, guildRoles, members, cb, sweep, boot, held, embed>>

\* if (title), if (description), if (color): null and "" are not given
optionGiven(option) == option # Null /\ option # <<>>

\* const newSettings = { roleId: role.id } and the options that were given
setupSettings(roleId, title, description, color) ==
    [k \in {"roleId"} \cup (IF optionGiven(title) THEN {"embedTitle"} ELSE {})
                      \cup (IF optionGiven(description) THEN {"embedDescription"} ELSE {})
                      \cup (IF optionGiven(color) THEN {"embedColor"} ELSE {}) |->
        CASE k = "roleId" -> roleId
          [] k = "embedTitle" -> title
          [] k = "embedDescription" -> description
          [] k = "embedColor" -> color]

\* nothing is held
NoHeld == [guildId |-> Undefined, live |-> FALSE, value |-> DEFAULT_MESSAGES]

\* /verifysetup with its options: guildSettings.updateSettings(guildId, newSettings).
\* The Map gets a new object; an object handed out before is no longer the stored one.
\* The settings file is not modelled.
VerifySetupCustom(guildId, roleId, title, description, color) ==
    /\ roleFound(guildRoles, guildId, roleId)
    /\ settings' = updateSettings(settings, guildId,
                                  setupSettings(roleId, title, description, color))
    /\ held' = IF held.guildId = guildId THEN [held EXCEPT !.live = FALSE] ELSE held
    /\ UNCHANGED <<now, store, disk, guildRoles, members, cb, btn, sweep, boot, acked, embed>>

\* /verifysetup role:@role
VerifySetup(guildId, roleId) == VerifySetupCustom(guildId, roleId, Null, Null, Null)

\* a caller takes the settings of a guild
CallerGet(guildId) ==
    /\ held' = [guildId |-> guildId, live |-> getSettingsIsLive(settings, guildId),
                value |-> getSettings(settings, guildId)]
    /\ UNCHANGED <<now, store, disk, settings, guildRoles, members, cb, btn, sweep, boot,
                   acked, embed>>

\* the caller assigns to a property of the object it was given
CallerMutate(k, v) ==
    /\ held.guildId # Undefined
    /\ held' = [held EXCEPT !.value = [@ EXCEPT ![k] = v]]
    /\ settings' = IF held.live THEN MapSet(settings, held.guildId, held'.value)
                   ELSE settings
    /\ UNCHANGED <<now, store, disk, guildRoles, members, cb, btn, sweep, boot, acked, embed>>

\* an administrator deletes a role of the guild
DeleteRole(guildId, roleId) ==
    /\ roleFound(guildRoles, guildId, roleId)
    /\ guildRoles' = guildRoles \ {<<guildId, roleId>>}
    /\ members' = {m \in members : ~(m[2] = guildId /\ m[3] = roleId)}
    /\ UNCHANGED <<now, store, disk, settings, cb, btn, sweep, boot, held, acked, embed>>

----------------------------------------------------------------------------
(* bot.js: setInterval(() => verificationStore.cleanup(), cleanupInterval) *)

IdleSweep == [pc |-> "idle", write |-> EmptyMap]

\* the timer fires: cleanup() up to its persist()
CleanupRun ==
    /\ sweep.pc = "idle"
    /\ boot.pc = "ready"
    /\ LET r == cleanup(store, now)
       IN  /\ store' = r.store
           /\ sweep' = IF r.cleaned > 0 THEN [pc |-> "persist", write |-> r.store]
                       ELSE IdleSweep
    /\ acked' = Forget(acked, store, store')
    /\ UNCHANGED <<now, disk, settings, guildRoles, members, cb, btn, boot, held, embed>>

\* fs.writeFile of cleanup's persist() ends
CleanupPersistDone(ok) ==
    /\ sweep.pc = "persist"
    /\ disk' = writeFile(disk, sweep.write, ok)
    /\ sweep' = IdleSweep
    /\ UNCHANGED <<now, store, settings, guildRoles, members, cb, btn, boot, held, acked,
                   embed>>

----------------------------------------------------------------------------
(* The process: bot.js "ready" awaits verificationStore.init(), while the      *)
(* server of web.js and the interaction handlers already run.                 *)

\* the process after its modules are loaded: new VerificationStore()
Started == [pc |-> "start", initialized |-> FALSE, log |-> "none"]
\* the process after init() found no file
Booted == [pc |-> "ready", initialized |-> TRUE, log |-> "nofile"]

\* init() up to fs.readFile: fs.mkdir; its error ends init() in the outer catch
InitStart(ok) ==
    /\ boot.pc = "start"
    /\ ~boot.initialized
    /\ boot' = IF ok THEN [boot EXCEPT !.pc = "reading"]
               ELSE [boot EXCEPT !.pc = "ready", !.log = "error"]
    /\ UNCHANGED <<now, store, disk, settings, guildRoles, members, cb, btn, sweep, held,
                   acked, embed>>

\* mutant: a file that cannot be read ends init() with its error
InitReadDoneThrows(ok) ==
    /\ boot.pc = "reading"
    /\ IF ok /\ disk.exists
       THEN /\ store' = load(disk)
            /\ boot' = [pc |-> "ready", initialized |-> TRUE, log |-> "file"]
       ELSE /\ store' = store
            /\ boot' = [pc |-> "ready", initialized |-> FALSE, log |-> "error"]
    /\ acked' = [u \in (DOMAIN acked) \ Touched(acked, store') |-> acked[u]]
    /\ UNCHANGED <<now, disk, settings, guildRoles, members, cb, btn, sweep, held, embed>>

\* fs.readFile ends: the parsed file becomes the store, or the inner catch starts
\* fresh with the store as it is; then this.initialized = true
InitReadDone(ok) ==
    /\ boot.pc = "reading"
    /\ IF ok /\ disk.exists
       THEN /\ store' = load(disk)
            /\ boot' = [pc |-> "ready", initialized |-> TRUE, log |-> "file"]
       ELSE /\ store' = store
            /\ boot' = [pc |-> "ready", initialized |-> TRUE, log |-> "nofile"]
    /\ acked' = [u \in (DOMAIN acked) \ Touched(acked, store') |-> acked[u]]
    /\ UNCHANGED <<now, disk, settings, guildRoles, members, cb, btn, sweep, held, embed>>

\* the process is killed and started again: the memory and the work in flight are
\* lost, the file stays.  The settings are read back from their own file, which is
\* taken to hold them.
Restart ==
    /\ boot.pc = "ready"
    /\ store' = EmptyMap
    /\ cb' = [c \in Callbacks |-> IdleCb]
    /\ btn' = [b \in Buttons |-> IdleBtn]
    /\ sweep' = IdleSweep
    /\ boot' = Started
    /\ held' = NoHeld
    /\ UNCHANGED <<now, disk, settings, guildRoles, members, acked, embed>>

\* time passes
Tick(d) ==
    /\ Ticks(now + d) <= MaxTicks
    /\ now' = now + d
    /\ UNCHANGED <<store, disk, settings, guildRoles, members, cb, btn, sweep, boot, held, acked,
                   embed>>

----------------------------------------------------------------------------
(* The requests the model sends to /callback *)

\* state as the /verify page composes it: `${user}:${guild}:${state}`
WellFormedStates == {Join(<<u, g, t>>) : u \in Users, g \in Guilds, t \in generateState}

\* states with a missing field, an extra field or an empty field
MalformedStates ==
    {Join(<<U42, G7>>), Join(<<U42, G7, TokA, TokB>>), Join(<<U42, <<>>, TokA>>),
     Join(<<U42, G7, <<>>>>), U42}

\* <<code present, state>>: every state with a code, and a request without code or state
Requests ==
    {<<TRUE, s>> : s \in WellFormedStates \cup MalformedStates}
        \cup {<<FALSE, Join(<<U42, G7, TokA>>)>>, <<TRUE, <<>>>>}

\* the links user 42 can have been sent for guild 7
StoreRequests == {<<TRUE, Join(<<U42, G7, t>>)>> : t \in generateState}

----------------------------------------------------------------------------

\* the process has started on an empty data directory and init() has run
Init ==
    /\ now = 0
    /\ store = EmptyMap
    /\ disk = NoFile
    /\ settings = EmptyMap
    /\ guildRoles = Guilds \X Roles
    /\ members = {}
    /\ cb = [c \in Callbacks |-> IdleCb]
    /\ btn = [b \in Buttons |-> IdleBtn]
    /\ sweep = IdleSweep
    /\ boot = Booted
    /\ held = NoHeld
    /\ acked = EmptyMap
    /\ embed = NoEmbed

\* the process has started on an empty data directory and "ready" has not fired
InitStarted ==
    /\ now = 0
    /\ store = EmptyMap
    /\ disk = NoFile
    /\ settings = EmptyMap
    /\ guildRoles = Guilds \X Roles
    /\ members = {}
    /\ cb = [c \in Callbacks |-> IdleCb]
    /\ btn = [b \in Buttons |-> IdleBtn]
    /\ sweep = IdleSweep
    /\ boot = Started
    /\ held = NoHeld
    /\ acked = EmptyMap
    /\ embed = NoEmbed

\* The callback flow: one request at a time against the sessions of one member of
\* guild 7, with the store, the settings, the roles and the clock changing under it.
Next ==
    \/ \E rq \in Requests : CallbackRequest(1, rq[1], rq[2])
    \/ \E ok \in BOOLEAN : CallbackPersistDone(1, ok)
    \/ \E ok \in BOOLEAN : CallbackTokenDone(1, ok)
    \/ \E ok \in BOOLEAN, id \in Users : CallbackUserDone(1, ok, id)
    \/ \E ok \in BOOLEAN : CallbackFetchDone(1, ok)
    \/ \E ok \in BOOLEAN : CallbackRolesAddDone(1, ok)
    \/ \E ok \in BOOLEAN : CallbackDmDone(1, ok)
    \/ CallbackFinish(1)
    \/ ButtonClick(1, U42, G7)
    \/ \E ok \in BOOLEAN, state \in generateState : ButtonFetchDone(1, ok, state)
    \/ \E ok \in BOOLEAN : ButtonPersistDone(1, ok)
    \/ \E r \in Roles : VerifySetup(G7, r)
    \/ \E r \in Roles : DeleteRole(G7, r)
    \/ \E d \in TickSteps : Tick(d)

Spec == Init /\ [][Next]_vars

\* The verification store: two members of guild 7 create sessions, user 42 redeems
\* them and user 99 abandons them, while the clock advances and the periodic cleanup
\* runs; the provider refuses every code and every write to disk succeeds.
NextStore ==
    \/ \E rq \in StoreRequests : CallbackRequest(1, rq[1], rq[2])
    \/ CallbackPersistDone(1, TRUE)
    \/ CallbackTokenDone(1, FALSE)
    \/ CallbackFinish(1)
    \/ \E u \in Users : ButtonClick(1, u, G7)
    \/ \E ok \in BOOLEAN, state \in generateState : ButtonFetchDone(1, ok, state)
    \/ ButtonPersistDone(1, TRUE)
    \/ \E r \in Roles : VerifySetup(G7, r)
    \/ CleanupRun
    \/ CleanupPersistDone(TRUE)
    \/ \E d \in TickSteps : Tick(d)

SpecStore == Init /\ [][NextStore]_vars

\* The options of /verifysetup: at most one of title, description and color is given
\* with a command, so that a later command meets the values of an earlier one.
CustomTitle == <<"Hello ", "{username}">>
CustomDescription == <<"Click below">>
CustomColor == <<"#FF0000">>
SetupOptions ==
    {<<Null, Null, Null>>, <<CustomTitle, Null, Null>>, <<<<>>, Null, Null>>,
     <<Null, CustomDescription, Null>>, <<Null, Null, CustomColor>>}

\* what a caller writes into the object it was given
Mutations == {<<"roleId", Null>>, <<"embedTitle", <<"mutated">>>>}

\* The guild settings: administrators of two guilds run /verifysetup with and without
\* options, while a caller takes settings objects and writes to them.
NextSettings ==
    \/ \E g \in Guilds, r \in Roles, o \in SetupOptions :
           VerifySetupCustom(g, r, o[1], o[2], o[3])
    \/ \E g \in Guilds : CallerGet(g)
    \/ \E m \in Mutations : CallerMutate(m[1], m[2])

SpecSettings == Init /\ [][NextSettings]_vars

\* the links of user 42 with either guild in the state
BindRequests == {<<TRUE, Join(<<U42, g, t>>)>> : g \in Guilds, t \in generateState}

\* The guild of the grant: both guilds have a role configured, user 42 is a member of
\* both and clicks Verify in guild 7 only; the callback arrives with either guild
\* in its state; the writes succeed and the provider confirms user 42.
NextBind ==
    \/ \E rq \in BindRequests : CallbackRequest(1, rq[1], rq[2])
    \/ CallbackPersistDone(1, TRUE)
    \/ CallbackTokenDone(1, TRUE)
    \/ CallbackUserDone(1, TRUE, U42)
    \/ \E ok \in BOOLEAN : CallbackFetchDone(1, ok)
    \/ CallbackRolesAddDone(1, TRUE)
    \/ \E ok \in BOOLEAN : CallbackDmDone(1, ok)
    \/ CallbackFinish(1)
    \/ ButtonClick(1, U42, G7)
    \/ \E state \in generateState : ButtonFetchDone(1, TRUE, state)
    \/ ButtonPersistDone(1, TRUE)
    \/ \E g \in Guilds, r \in Roles : VerifySetup(g, r)
    \/ \E d \in TickSteps : Tick(d)

SpecBind == Init /\ [][NextBind]_vars

\* the one link user 42 was sent
RaceSession == [guildId |-> G7, state |-> TokA, timestamp |-> 0]
RaceRequests == {<<TRUE, Join(<<U42, G7, TokA>>)>>}

\* guild 7 has its role configured, user 42 has clicked Verify and the session is
\* stored and written
InitRace ==
    /\ now = 0
    /\ store = MapSet(EmptyMap, U42, RaceSession)
    /\ disk = File(store)
    /\ settings = updateSettings(EmptyMap, G7, [roleId |-> R1])
    /\ guildRoles = Guilds \X Roles
    /\ members = {}
    /\ cb = [c \in Callbacks |-> IdleCb]
    /\ btn = [b \in Buttons |-> IdleBtn]
    /\ sweep = IdleSweep
    /\ boot = Booted
    /\ held = NoHeld
    /\ acked = store
    /\ embed = NoEmbed

\* Racing callbacks: the link of the one session is opened twice and more, the two
\* requests interleave at every await, the provider and the writes succeed or fail
\* and the clock advances.
NextRace ==
    \E c \in Callbacks :
        \/ \E rq \in RaceRequests : CallbackRequest(c, rq[1], rq[2])
        \/ \E ok \in BOOLEAN : CallbackPersistDone(c, ok)
        \/ \E ok \in BOOLEAN : CallbackTokenDone(c, ok)
        \/ \E ok \in BOOLEAN : CallbackUserDone(c, ok, U42)
        \/ CallbackFetchDone(c, TRUE)
        \/ CallbackRolesAddDone(c, TRUE)
        \/ CallbackDmDone(c, TRUE)
        \/ CallbackFinish(c)
        \/ \E d \in TickSteps : Tick(d)

SpecRace == InitRace /\ [][NextRace]_vars

\* the links the two users are sent
SweepRequests == {<<TRUE, Join(<<u, G7, TokA>>)>> : u \in Users}

\* The periodic sweep next to the traffic: users click and open or abandon their
\* links, every write succeeds, the clock advances.
NextSweep ==
    \/ \E rq \in SweepRequests : CallbackRequest(1, rq[1], rq[2])
    \/ CallbackPersistDone(1, TRUE)
    \/ CallbackTokenDone(1, FALSE)
    \/ CallbackFinish(1)
    \/ \E u \in Users : ButtonClick(1, u, G7)
    \/ ButtonFetchDone(1, TRUE, TokA)
    \/ ButtonPersistDone(1, TRUE)
    \/ VerifySetup(G7, R1)
    \/ CleanupRun
    \/ CleanupPersistDone(TRUE)
    \/ \E d \in TickSteps : Tick(d)

\* setInterval keeps firing cleanup() and every fs.writeFile that was started ends
SweepFairness ==
    /\ WF_vars(CleanupRun)
    /\ WF_vars(CleanupPersistDone(TRUE))
    /\ WF_vars(ButtonPersistDone(1, TRUE))
    /\ WF_vars(CallbackPersistDone(1, TRUE))

SpecSweep == Init /\ [][NextSweep]_vars /\ SweepFairness

\* A callback that waits on Discord next to the rest of the traffic: user 42 opens
\* the link and the request runs through its outbound calls, each of which may
\* never end; user 99 clicks and opens the link and the sweep goes on meanwhile.
NextHang ==
    \/ CallbackRequest(1, TRUE, Join(<<U42, G7, TokA>>))
    \/ CallbackPersistDone(1, TRUE)
    \/ CallbackTokenDone(1, TRUE)
    \/ CallbackUserDone(1, TRUE, U42)
    \/ CallbackFetchDone(1, TRUE)
    \/ CallbackRolesAddDone(1, TRUE)
    \/ CallbackDmDone(1, TRUE)
    \/ CallbackFinish(1)
    \/ CallbackRequest(2, TRUE, Join(<<U99, G7, TokA>>))
    \/ CallbackPersistDone(2, TRUE)
    \/ CallbackTokenDone(2, FALSE)
    \/ CallbackFinish(2)
    \/ ButtonClick(1, U99, G7)
    \/ ButtonFetchDone(1, TRUE, TokA)
    \/ ButtonPersistDone(1, TRUE)
    \/ CleanupRun
    \/ CleanupPersistDone(TRUE)
    \/ Tick(verifyExpirationTime)

SpecHang == InitRace /\ [][NextHang]_vars

\* The texts, guild names and user names the model renders
Templates ==
    {DEFAULT_MESSAGES.embedTitle, DEFAULT_MESSAGES.dmDescription, CustomTitle,
     <<"{servername}", "{servername}", " in ", "{channel}", " for ", "{username}", "{username}">>,
     <<"no placeholder">>,
     <<"{user}", "{servername", "$", "&", "{username}">>}
ServerNames ==
    {<<"Guild">>, Undefined, <<>>, <<"A", "$", "&", "B">>, <<"Cash", "$", "$">>,
     <<"{username}", " fans">>}
UserNames == {<<"alice">>, Undefined, <<"{servername}">>, <<"it", "$", "'", "s">>}

\* Rendering: titles and descriptions are rendered for guilds and members of any name.
NextRender ==
    \E text \in Templates, serverName \in ServerNames, username \in UserNames :
        RenderEmbed(text, serverName, username)

SpecRender == Init /\ [][NextRender]_vars

\* Persistence: one member of guild 7 creates and redeems sessions while the cleanup
\* runs, writes to disk succeed or fail and finish in any order, and the process is
\* killed and started again; the provider refuses every code.
NextPersist ==
    \/ \E rq \in StoreRequests : CallbackRequest(1, rq[1], rq[2])
    \/ \E ok \in BOOLEAN : CallbackPersistDone(1, ok)
    \/ CallbackTokenDone(1, FALSE)
    \/ CallbackFinish(1)
    \/ ButtonClick(1, U42, G7)
    \/ \E state \in generateState : ButtonFetchDone(1, TRUE, state)
    \/ \E ok \in BOOLEAN : ButtonPersistDone(1, ok)
    \/ \E r \in Roles : VerifySetup(G7, r)
    \/ CleanupRun
    \/ \E ok \in BOOLEAN : CleanupPersistDone(ok)
    \/ \E ok \in BOOLEAN : InitStart(ok)
    \/ \E ok \in BOOLEAN : InitReadDone(ok)
    \/ Restart
    \/ \E d \in TickSteps : Tick(d)

SpecPersist == InitStarted /\ [][NextPersist]_vars

----------------------------------------------------------------------------
(* Properties of the callback flow, checked under Spec *)

\* the three parts of the callback state of request c
Parsed(c) == parseState(cb[c].state)

\* the pages that report a failure
FailurePages == {PageExpired, PageUserFailed, PageRoleFailed, PageError}

\* C1: when the id the provider returns differs from the user id of the callback
\* state, the request is answered with a failure page and neither
\* assignVerifiedRole nor member.roles.add is called for it.
C1_IdMismatchNeverGrants ==
    \A c \in Callbacks :
        (cb[c].discordUserId # Undefined /\ cb[c].discordUserId # Parsed(c).userId)
            => /\ cb[c].pc = "done"
               /\ cb[c].page \in FailurePages
               /\ cb[c].calls \cap {"assignVerifiedRole", "rolesAdd"} = {}

C1_Witness ==
    \E c \in Callbacks :
        /\ cb[c].pc = "done"
        /\ cb[c].reason = "Verified"
        /\ cb[c].discordUserId = U99
        /\ Parsed(c).userId = U42
        /\ cb[c].page = PageUserFailed

\* C2: when verify() rejects (no pending verification, state mismatch, expired), the
\* request makes no token exchange, no identity fetch and no role grant call: it is
\* answered with the failure page, after the write of an expired deletion if any.
C2_RejectedMakesNoCalls ==
    \A c \in Callbacks :
        cb[c].reason \in {"NotFound", "StateMismatch", "Expired"}
            => /\ cb[c].calls = {}
               /\ cb[c].pc \in {"persist", "done"}
               /\ cb[c].pc = "done" => cb[c].page = PageExpired

C2_Witness ==
    \E c \in Callbacks :
        /\ cb[c].pc = "done"
        /\ cb[c].reason = "Expired"
        /\ cb[c].page = PageExpired
        /\ cb[c].calls = {}

\* exactly three colon-delimited fields, none of them empty
WellFormed(raw) ==
    LET f == split(raw) IN Len(f) = 3 /\ \A i \in 1..3 : f[i] # <<>>

\* C9: a callback whose state does not have exactly three non-empty fields is
\* answered 400 and verify() is not run for it (no session is redeemed).
C9_MalformedIsBadRequest ==
    \A c \in Callbacks :
        (cb[c].pc # "idle" /\ ~WellFormed(cb[c].state))
            => cb[c].status = 400 /\ cb[c].reason = "none"

\* a step of request c from its await p to another place
Leaves(c, p) == cb[c].pc = p /\ cb'[c].pc # p

\* the answer C10 asks for: the contact-an-administrator page and no role change
ConfigFailure(c) ==
    /\ cb'[c].pc = "done"
    /\ cb'[c].page = PageRoleFailed
    /\ "rolesAdd" \notin cb'[c].calls
    /\ members' = members

\* C10: a request whose verify() and identity check succeeded, for a guild that has
\* no role configured or whose configured role is gone from the guild, is answered
\* with the role-assignment failure page (contact an administrator) and no role is
\* added.
C10_NotConfiguredFails ==
    [][\A c \in Callbacks :
          /\ ( /\ Leaves(c, "userinfo")
               /\ "assignVerifiedRole" \in cb'[c].calls
               /\ getSettings(settings, Parsed(c).guildId).roleId = Null )
                 => ConfigFailure(c)
          /\ ( /\ Leaves(c, "membersFetch")
               /\ <<Parsed(c).guildId, cb[c].roleId>> \notin guildRoles )
                 => ConfigFailure(c)]_vars

C10_Witness ==
    \E c \in Callbacks :
        /\ cb[c].pc = "done"
        /\ cb[c].discordUserId = Parsed(c).userId
        /\ "assignVerifiedRole" \in cb[c].calls
        /\ cb[c].roleId # Null
        /\ <<Parsed(c).guildId, cb[c].roleId>> \notin guildRoles
        /\ cb[c].page = PageRoleFailed
        /\ members = {}

----------------------------------------------------------------------------
(* Properties of the verification store, checked under SpecStore *)

\* the expiration window of the configuration: verification.expirationTime
expirationWindow == 300000

\* request c arrives with both parameters in this step, so that verify() runs
Redeems(c) == cb[c].pc = "idle" /\ cb'[c].pc # "idle" /\ ~paramsMissing(cb'[c].code, cb'[c].state)

\* what the request of this step presents to verify()
Presented(c) == parseState(cb'[c].state)

\* the age of the session of user u
Age(u) == now - store[u].timestamp

\* the step stores a new session for user u: addPending in a verify_button handler
Creates(u) ==
    \E b \in Buttons :
        /\ btn[b].pc = "membersFetch"
        /\ btn'[b].pc = "persist"
        /\ btn[b].userId = u
        /\ store'[u].timestamp = now

\* a user absent from the store stays absent until a create for that user
AbsentUntilCreate ==
    \A u \in Users : (~MapHas(store, u) /\ MapHas(store', u)) => Creates(u)

\* C3: a verify() with the stored state inside the window returns the stored record
\* (with its guildId) and deletes it; from then on, until the next create for that
\* user, the user has no session and a verify() with the same arguments returns null
\* for want of a pending verification.
C3_RedeemOnce ==
    [][/\ \A c \in Callbacks :
            Redeems(c) =>
                LET u == Presented(c).userId
                    t == Presented(c).stateToken
                IN  /\ (MapHas(store, u) /\ store[u].state = t /\ Age(u) <= expirationWindow)
                          => /\ cb'[c].data = Data(store[u])
                             /\ cb'[c].data[1].guildId = store[u].guildId
                             /\ ~MapHas(store', u)
                             /\ verify(store', u, t, now').data = NoData
                             /\ verify(store', u, t, now').reason = "NotFound"
                    /\ ~MapHas(store, u)
                          => /\ cb'[c].data = NoData
                             /\ cb'[c].reason = "NotFound"
                             /\ store' = store
       /\ AbsentUntilCreate]_vars

C3_Witness ==
    \E c \in Callbacks :
        /\ cb[c].pc = "persist"
        /\ cb[c].reason = "Verified"
        /\ cb[c].data # NoData
        /\ cb[c].data[1].guildId = G7
        /\ cb[c].data[1].state = Parsed(c).stateToken
        /\ ~MapHas(store, Parsed(c).userId)
        /\ verify(store, Parsed(c).userId, Parsed(c).stateToken, now).reason = "NotFound"

\* C4: a verify() with a state other than the stored one returns null and leaves the
\* store as it was, without a write; the session is still there and a verify() with
\* the stored state succeeds for as long as the session has not expired.
C4_WrongSecretChangesNothing ==
    [][\A c \in Callbacks :
          Redeems(c) =>
              LET u == Presented(c).userId
                  t == Presented(c).stateToken
              IN  (MapHas(store, u) /\ store[u].state # t)
                      => /\ cb'[c].data = NoData
                         /\ cb'[c].pc = "done"
                         /\ store' = store
                         /\ disk' = disk
                         /\ Age(u) <= expirationWindow
                               => verify(store', u, store[u].state, now').data = Data(store[u])]_vars

C4_Witness ==
    \E c \in Callbacks :
        LET u == Parsed(c).userId
        IN  /\ cb[c].pc = "done"
            /\ cb[c].reason = "StateMismatch"
            /\ MapHas(store, u)
            /\ store[u].state # Parsed(c).stateToken
            /\ Age(u) <= expirationWindow
            /\ verify(store, u, store[u].state, now).reason = "Verified"

C6_OldSecretInvalidated ==
    [][\A u \in Users :
          (MapHas(store, u) /\ Creates(u))
              => verify(store', u, store[u].state, now').data = NoData]_vars

\* C7: verify() returns the record exactly when a session is stored under the
\* presented user id, its state equals the presented state and its age is at most
\* the window; in every other case it returns null.
C7_RedeemableIff ==
    [][\A c \in Callbacks :
          Redeems(c) =>
              LET u == Presented(c).userId
                  t == Presented(c).stateToken
              IN  (cb'[c].data # NoData)
                      <=> (MapHas(store, u) /\ store[u].state = t /\ Age(u) <= expirationWindow)]_vars

C7_Witness ==
    \E c \in Callbacks :
        /\ cb[c].pc = "persist"
        /\ cb[c].reason = "Verified"
        /\ now - cb[c].data[1].timestamp = expirationWindow
        /\ cb[c].data[1].timestamp = 0
        /\ now = expirationWindow

\* the sessions of the store that are at most as old as the window
Fresh(st, t) == {u \in DOMAIN st : t - st[u].timestamp <= expirationWindow}

\* C8: cleanup() deletes exactly the sessions older than the window and leaves the
\* others as they are; the end of its write changes no session, so a session
\* created while the write is in flight stays; and no step drops a session that is
\* inside the window except the verify() that redeems it.
C8_SweepRemovesOnlyExpired ==
    [][/\ CleanupRun => store' = [u \in Fresh(store, now) |-> store[u]]
       /\ (sweep.pc = "persist" /\ sweep'.pc = "idle") => store' = store
       /\ \A u \in Fresh(store, now) :
              /\ ~MapHas(store', u)
                    => \E c \in Callbacks :
                           Redeems(c) /\ Presented(c).userId = u /\ cb'[c].reason = "Verified"
              /\ MapHas(store', u) => (store'[u] = store[u] \/ Creates(u))]_vars

C8_Witness ==
    /\ sweep.pc = "persist"
    /\ \E u \in DOMAIN store :
           /\ ~MapHas(sweep.write, u)
           /\ store[u].timestamp = now
    /\ \E u \in Users : ~MapHas(store, u)

----------------------------------------------------------------------------
(* Properties of the role grant and of the failures of the callback, checked *)
(* under Spec                                                                *)

\* C11: when guild.members.fetch has answered and the member already holds the
\* configured role, assignVerifiedRole returns true without calling member.roles.add,
\* no role changes, and the request is answered with the success page.
C11_GrantIsIdempotent ==
    [][\A c \in Callbacks :
          ( /\ CallbackFetchDone(c, TRUE)
            /\ <<Parsed(c).userId, Parsed(c).guildId, cb[c].roleId>> \in members )
              => /\ cb'[c].pc = "done"
                 /\ cb'[c].status = 200
                 /\ cb'[c].page = PageSuccess
                 /\ "rolesAdd" \notin cb'[c].calls
                 /\ members' = members]_vars

C11_Witness ==
    \E c \in Callbacks :
        /\ cb[c].pc = "done"
        /\ cb[c].page = PageSuccess
        /\ "assignVerifiedRole" \in cb[c].calls
        /\ "rolesAdd" \notin cb[c].calls
        /\ <<Parsed(c).userId, Parsed(c).guildId, cb[c].roleId>> \in members

\* C12: once member.roles.add has succeeded, the end of member.send, with or
\* without error, makes assignVerifiedRole return true: the request is answered with
\* the success page and the role stays as it is.
C12_DmFailureIsNotEscalated ==
    [][\A c \in Callbacks :
          Leaves(c, "dm")
              => /\ cb'[c].pc = "done"
                 /\ cb'[c].dm \in {"sent", "failed"}
                 /\ cb'[c].status = 200
                 /\ cb'[c].page = PageSuccess
                 /\ members' = members]_vars

C12_Witness ==
    \E c \in Callbacks :
        /\ cb[c].pc = "done"
        /\ cb[c].dm = "failed"
        /\ "rolesAdd" \in cb[c].calls
        /\ cb[c].page = PageSuccess
        /\ <<Parsed(c).userId, Parsed(c).guildId, cb[c].roleId>> \in members

\* the token exchange or the identity fetch of request c fails in this step
ProviderFails(c) ==
    \/ Leaves(c, "token") /\ cb'[c].pc = "done"
    \/ Leaves(c, "userinfo") /\ cb'[c].pc = "done" /\ cb'[c].discordUserId = Undefined

\* C13: when the token exchange or the identity fetch fails after verify() returned
\* the record, the request is answered with the generic error page, assignVerifiedRole
\* is not called, and the session is not put back: verify() deleted it, a user
\* without a session only gets one by a new addPending, and until then a request
\* with the same state is rejected for want of a pending verification.
C13_ProviderFailureConsumes ==
    [][/\ \A c \in Callbacks :
            /\ ProviderFails(c)
                  => /\ cb[c].reason = "Verified"
                     /\ cb'[c].status = 200
                     /\ cb'[c].page = PageError
                     /\ cb'[c].calls \cap {"assignVerifiedRole", "rolesAdd"} = {}
                     /\ members' = members
                     /\ store' = store
            /\ (Redeems(c) /\ cb'[c].reason = "Verified")
                  => ~MapHas(store', Presented(c).userId)
            /\ (Redeems(c) /\ ~MapHas(store, Presented(c).userId))
                  => /\ cb'[c].reason = "NotFound"
                     /\ cb'[c].pc = "done"
                     /\ cb'[c].page = PageExpired
                     /\ cb'[c].calls = {}
       /\ AbsentUntilCreate]_vars

C13_Witness ==
    \E c \in Callbacks :
        /\ cb[c].pc = "done"
        /\ cb[c].reason = "Verified"
        /\ cb[c].calls = {"token", "userinfo"}
        /\ cb[c].discordUserId = Undefined
        /\ cb[c].page = PageError
        /\ members = {}
        /\ ~MapHas(store, Parsed(c).userId)
        /\ verify(store, Parsed(c).userId, Parsed(c).stateToken, now).reason = "NotFound"

\* C15: a request that verify() rejects gets the same answer whatever the reason
\* (no pending verification, state mismatch, expired): status 200 and the one page
\* "Verification link expired or invalid".
C15_RejectionsLookAlike ==
    \A c \in Callbacks :
        (cb[c].pc = "done" /\ cb[c].reason \in {"NotFound", "StateMismatch", "Expired"})
            => <<cb[c].status, cb[c].page>> = <<200, PageExpired>>

C15_Witness ==
    \E c \in Callbacks :
        /\ cb[c].pc = "done"
        /\ cb[c].reason = "StateMismatch"
        /\ MapHas(store, Parsed(c).userId)
        /\ <<cb[c].status, cb[c].page>> = <<200, PageExpired>>

----------------------------------------------------------------------------
(* Properties of persistence and of the start of the process, checked under  *)
(* SpecPersist                                                               *)

\* the write of snapshot w ends in this step without having changed the file
FailedWrite(w) == disk' = disk /\ disk # File(w)

\* verify() of request c decides by the store in memory alone
DecidedByMemory(c) ==
    LET u == Presented(c).userId
        t == Presented(c).stateToken
    IN  (cb'[c].data # NoData)
            <=> (MapHas(store, u) /\ store[u].state = t /\ Age(u) <= expirationWindow)

\* C14: when the fs.writeFile of persist() fails, the operation that called it ends
\* as it does after a successful write: addPending returns and the link is sent,
\* verify() returns what it had found (the record, or null for an expired session),
\* cleanup() ends; the store in memory keeps the change and is what every later
\* verify() of the same process decides by.
C14_FailedWriteIsNotFatal ==
    [][boot' = boot =>
          /\ \A b \in Buttons :
                 (btn[b].pc = "persist" /\ btn'[b].pc # "persist" /\ FailedWrite(btn[b].write))
                     => store' = store /\ btn'[b] = IdleBtn
          /\ \A c \in Callbacks :
                 /\ (Leaves(c, "persist") /\ FailedWrite(cb[c].write))
                       => /\ store' = store
                          /\ cb'[c].data = cb[c].data
                          /\ IF cb[c].data # NoData
                             THEN cb'[c].pc = "token"
                             ELSE cb'[c].pc = "done" /\ cb'[c].page = PageExpired
                 /\ Redeems(c) => DecidedByMemory(c)
          /\ (sweep.pc = "persist" /\ sweep'.pc # "persist" /\ FailedWrite(sweep.write))
                 => store' = store /\ sweep' = IdleSweep]_vars

C14_Witness ==
    /\ disk = NoFile
    /\ sweep.pc = "idle"
    /\ \A b \in Buttons : btn[b].pc = "idle"
    /\ \E c \in Callbacks :
           /\ cb[c].pc = "token"
           /\ cb[c].reason = "Verified"
           /\ cb[c].data # NoData
           /\ ~MapHas(store, Parsed(c).userId)

\* init() ends in this step
LoadEnds == boot.pc = "reading" /\ boot'.pc = "ready"

C20_SessionsSurviveRestart ==
    [][(LoadEnds /\ boot'.log = "file") =>
          \A u \in (DOMAIN acked) \ (DOMAIN store) :
              /\ MapHas(store', u)
              /\ store'[u] = acked[u]
              /\ (verify(store', u, acked[u].state, now').data # NoData)
                    <=> (now' - acked[u].timestamp <= expirationWindow)]_vars

----------------------------------------------------------------------------
(* Properties of the guild settings, checked under SpecSettings *)

\* a guild the client is not in: /verifysetup never runs for it
NeverConfigured == <<"9">>

\* the fields a settings object has
SettingsFields ==
    {"roleId", "embedTitle", "embedDescription", "embedColor", "dmTitle", "dmDescription",
     "dmColor"}

\* C16: getSettings of a guild without stored settings returns the defaults, with
\* roleId null, the title "Welcome to {servername}!" and the color #5865F2; after
\* /verifysetup the settings of the guild hold the role and every option that was
\* given, and every other field has the value getSettings returned before.
C16_DefaultsAndMerge ==
    [][/\ \A g \in Guilds \cup {NeverConfigured} :
            ~MapHas(settings, g)
                => /\ DOMAIN getSettings(settings, g) = SettingsFields
                   /\ getSettings(settings, g).roleId = Null
                   /\ getSettings(settings, g).embedTitle = <<"Welcome to ", "{servername}", "!">>
                   /\ getSettings(settings, g).embedColor = <<"#5865F2">>
                   /\ getSettings(settings, g).dmColor = <<"#5865F2">>
       /\ \A g \in Guilds, r \in Roles, o \in SetupOptions :
            VerifySetupCustom(g, r, o[1], o[2], o[3])
                => LET old == getSettings(settings, g)
                       new == getSettings(settings', g)
                   IN  /\ MapHas(settings', g)
                       /\ DOMAIN new = SettingsFields
                       /\ new.roleId = r
                       /\ new.embedTitle = IF o[1] \in {Null, <<>>} THEN old.embedTitle ELSE o[1]
                       /\ new.embedDescription =
                              IF o[2] \in {Null, <<>>} THEN old.embedDescription ELSE o[2]
                       /\ new.embedColor = IF o[3] \in {Null, <<>>} THEN old.embedColor ELSE o[3]
                       /\ new.dmTitle = old.dmTitle
                       /\ new.dmDescription = old.dmDescription
                       /\ new.dmColor = old.dmColor]_vars

C16_Witness ==
    /\ MapHas(settings, G7)
    /\ settings[G7].roleId = R1
    /\ settings[G7].embedTitle = CustomTitle
    /\ settings[G7].embedColor = CustomColor
    /\ settings[G7].embedDescription = DEFAULT_MESSAGES.embedDescription
    /\ ~MapHas(settings, G8)
    /\ getSettings(settings, G8).roleId = Null

\* C17: when a caller assigns to a property of the object getSettings returned,
\* getSettings returns for every guild what it returned before.
C17_GetReturnsCopy ==
    [][\A m \in Mutations :
          CallerMutate(m[1], m[2])
              => \A g \in Guilds : getSettings(settings', g) = getSettings(settings, g)]_vars

\* the guilds for which getSettings returns something else after this step
SettingsChanged ==
    {h \in Guilds \cup {NeverConfigured} : getSettings(settings', h) # getSettings(settings, h)}

\* C18: /verifysetup in one guild changes what getSettings returns for that guild
\* only; no step changes the settings of two guilds, and a guild that was never
\* configured has no stored settings and gets the defaults.
C18_GuildsAreIsolated ==
    [][/\ \A g \in Guilds, r \in Roles, o \in SetupOptions :
            VerifySetupCustom(g, r, o[1], o[2], o[3]) => SettingsChanged \subseteq {g}
       /\ Cardinality(SettingsChanged) <= 1
       /\ ~MapHas(settings', NeverConfigured)
       /\ getSettings(settings', NeverConfigured) = DEFAULT_MESSAGES]_vars

C18_Witness ==
    /\ MapHas(settings, G7)
    /\ MapHas(settings, G8)
    /\ settings[G7].embedTitle = CustomTitle
    /\ settings[G8].embedTitle = DEFAULT_MESSAGES.embedTitle
    /\ settings[G8].embedColor = CustomColor
    /\ settings[G7].embedColor = DEFAULT_MESSAGES.embedColor

----------------------------------------------------------------------------
(* Properties of the rendering of texts, checked under SpecRender *)

\* the value a placeholder stands for: the supplied one, or the literal when missing
Supplied(value, literal) == IF value \in {Undefined, <<>>} THEN literal ELSE value

\* the text with every {servername} and {username} fragment exchanged for the value
\* it stands for, and every other fragment as it is
RECURSIVE Rendered(_, _, _)
Rendered(text, serverName, username) ==
    IF text = <<>> THEN <<>>
    ELSE (IF Head(text) = "{servername}" THEN Supplied(serverName, <<"Server">>)
          ELSE IF Head(text) = "{username}" THEN Supplied(username, <<"User">>)
          ELSE <<Head(text)>>)
             \o Rendered(Tail(text), serverName, username)

\* C21: the rendered text is the template with every {servername} replaced by the
\* guild name (or "Server") and every {username} by the user name (or "User"), and
\* with all other text, unknown placeholders included, as it was.
C21_RendersPlaceholders ==
    embed.out = Rendered(embed.text, embed.serverName, embed.username)

----------------------------------------------------------------------------
(* Properties of the store under concurrent operations, checked under SpecStore *)

\* C22: no addPending of this process stores a state that a session created
\* earlier in the process (and still stored) has: generateState() never returns the
\* same value twice.
C22_TokensNeverRepeat ==
    [][\A u \in Users :
          Creates(u) => \A v \in DOMAIN store : store'[u].state # store[v].state]_vars

----------------------------------------------------------------------------
(* Properties of the guild of the grant, checked under SpecBind *)

\* C23: when member.roles.add of a request succeeds, the guild in which the member
\* gets the role is the guildId of the session verify() returned to that request.
C23_GrantInSessionGuild ==
    [][\A c \in Callbacks :
          cb[c].pc = "rolesAdd"
              => \A m \in members' \ members : m[2] = cb[c].data[1].guildId]_vars

----------------------------------------------------------------------------
(* Properties of racing callbacks, checked under SpecRace *)

\* C24: of the requests that carry the state of one session, the request for which
\* verify() returns the record takes the session out of the store in the same step,
\* while no other request holds it, and the session never comes back; every
\* other request is answered with the expired/invalid page without any call to the
\* provider or to assignVerifiedRole.
C24_AtMostOnePasses ==
    [][/\ \A c \in Callbacks :
            Redeems(c)
                => IF cb'[c].reason = "Verified"
                   THEN /\ MapHas(store, Presented(c).userId)
                        /\ ~MapHas(store', Presented(c).userId)
                        /\ \A d \in Callbacks \ {c} :
                               cb[d].reason # "Verified" /\ cb'[d] = cb[d]
                   ELSE /\ cb'[c].pc \in {"persist", "done"}
                        /\ cb'[c].calls = {}
                        /\ cb'[c].pc = "done" => cb'[c].page = PageExpired
       /\ \A c \in Callbacks :
            (cb[c].reason # "Verified" /\ Leaves(c, "persist"))
                => cb'[c].page = PageExpired /\ cb'[c].calls = {}
       /\ \A c \in Callbacks : cb'[c].calls # {} => cb'[c].reason = "Verified"
       /\ \A u \in DOMAIN store' : MapHas(store, u) /\ store'[u] = store[u]]_vars

C24_Witness ==
    \E c, d \in Callbacks :
        /\ c # d
        /\ cb[c].state = cb[d].state
        /\ cb[c].reason = "Verified"
        /\ cb[c].pc = "rolesAdd"
        /\ cb[d].pc = "done"
        /\ cb[d].reason = "NotFound"
        /\ cb[d].page = PageExpired
        /\ cb[d].calls = {}

----------------------------------------------------------------------------
(* The store under overlapping operations, checked under SpecStore *)

\* create, redeem and sweepExpired run alone on a store st at time t
SeqCreate(st, u, g, s, t) ==
    [v \in DOMAIN st \cup {u} |->
        IF v = u THEN [guildId |-> g, state |-> s, timestamp |-> t] ELSE st[v]]

SeqRedeem(st, u, s, t) ==
    IF u \in DOMAIN st /\ st[u].state = s
    THEN [result |-> IF t - st[u].timestamp <= expirationWindow THEN <<st[u]>> ELSE <<>>,
          store |-> [v \in DOMAIN st \ {u} |-> st[v]]]
    ELSE [result |-> <<>>, store |-> st]

SeqSweep(st, t) == [v \in Fresh(st, t) |-> st[v]]

\* the step is the sweep of the timer removing at least one session
Sweeps == sweep.pc = "idle" /\ sweep'.pc = "persist"

\* C25: every change of the in-memory store is the whole effect of one create, one
\* redeem or one sweep applied to the store as the calls before it left it, the
\* redeem returns what it would return run alone on that store, and neither the
\* store nor a result already computed changes while a call waits for its write:
\* the calls take effect one at a time in the order of these steps and no update
\* is lost.
C25_StoreIsLinearizable ==
    [][/\ store' # store => \/ \E c \in Callbacks : Redeems(c)
                            \/ \E u \in Users : Creates(u)
                            \/ Sweeps
       /\ \A c \in Callbacks :
            Redeems(c) =>
                LET r == SeqRedeem(store, Presented(c).userId, Presented(c).stateToken, now)
                IN  store' = r.store /\ cb'[c].data = r.result
       /\ \A u \in Users :
            Creates(u) =>
                \E b \in Buttons :
                    /\ btn[b].pc = "membersFetch" /\ btn[b].userId = u
                    /\ store' = SeqCreate(store, u, btn[b].guildId, store'[u].state, now)
       /\ Sweeps => store' = SeqSweep(store, now)
       /\ \A c \in Callbacks :
            (cb[c].pc # "idle" /\ cb'[c].pc # "idle") => cb'[c].data = cb[c].data]_vars

\* a create, a redeem and a sweep all wait for their writes, and the store has moved
\* on from the Map the create wrote
C25_Witness ==
    /\ btn[1].pc = "persist"
    /\ cb[1].pc = "persist"
    /\ sweep.pc = "persist"
    /\ btn[1].write # store
    /\ cb[1].write # sweep.write

\* the Maps whose fs.writeFile has not ended after the step
InFlight ==
    {cb'[c].write : c \in {d \in Callbacks : cb'[d].pc = "persist"}}
        \cup {btn'[b].write : b \in {d \in Buttons : btn'[d].pc = "persist"}}
        \cup (IF sweep'.pc = "persist" THEN {sweep'.write} ELSE {})

\* the write of a create, of a redeem or of a sweep ends and the call returns
Returns ==
    \/ \E c \in Callbacks : Leaves(c, "persist")
    \/ \E b \in Buttons : btn[b].pc = "persist" /\ btn'[b].pc # "persist"
    \/ sweep.pc = "persist" /\ sweep'.pc # "persist"

\* C26: when a mutating call returns after its write, the file holds the whole
\* store, but for the mutations of calls whose own writes have not yet ended.
C26_WrittenBeforeReturn ==
    [][Returns => (disk' = File(store') \/ store' \in InFlight)]_vars

\* no write of the store is in flight
Quiescent ==
    /\ \A c \in Callbacks : cb[c].pc # "persist"
    /\ \A b \in Buttons : btn[b].pc # "persist"
    /\ sweep.pc # "persist"

\* C27: when no store operation and no write is in flight, the file holds exactly
\* the in-memory store (no file yet: nothing was ever stored).
C27_QuiescentDiskEqualsMemory ==
    Quiescent => IF disk.exists THEN disk.data = store ELSE store = EmptyMap

----------------------------------------------------------------------------
(* The store and the load of init(), checked under SpecPersist *)

\* C28: verify() of a callback, addPending of a verify-button handler and the
\* cleanup() of the timer run only once init() has completed.
C28_NoOperationBeforeLoad ==
    [][/\ \A c \in Callbacks : Redeems(c) => boot.initialized
       /\ \A u \in Users : Creates(u) => boot.initialized
       /\ Sweeps => boot.initialized]_vars

\* C29: the load leaves every session that is in the store when it ends there,
\* and redeemable as before.
C29_LoadKeepsNewSessions ==
    [][LoadEnds =>
          \A u \in DOMAIN store :
              /\ MapHas(store', u)
              /\ store'[u] = store[u]
              /\ verify(store', u, store[u].state, now').reason
                    = verify(store, u, store[u].state, now).reason]_vars

----------------------------------------------------------------------------
(* The periodic sweep, checked under SpecSweep *)

\* the Map m holds the session that user u created at time t
Holds(m, u, t) == MapHas(m, u) /\ m[u].timestamp = t

\* the creation times of the sessions that outlive the window before the clock stops
StaleTimes == 0 .. MaxTicks

\* C30: once a session has outlived the window, the sweeps lead to a state from
\* which on neither the in-memory store nor the file holds it, whatever the
\* callbacks and clicks in between.
C30_AbandonedAreCollected ==
    \A u \in Users, t \in StaleTimes :
        (Holds(store, u, t) /\ now - t > expirationWindow)
            ~> [](~Holds(store, u, t) /\ ~Holds(disk.data, u, t))

----------------------------------------------------------------------------
(* The answer after the role grant, checked under Spec *)

\* the request is answered with the success page in this step
Succeeds(c) == cb[c].page # PageSuccess /\ cb'[c].page = PageSuccess

\* C31: a request is answered with the success page only when assignVerifiedRole
\* was called and returned true: member.roles.add has succeeded for this request
\* (the step is the end of member.send), or guild.members.fetch has just shown
\* that the member holds the role already.
C31_SuccessOnlyAfterGrant ==
    [][\A c \in Callbacks :
          Succeeds(c) =>
              LET p == parseState(cb[c].state)
              IN  /\ "assignVerifiedRole" \in cb[c].calls
                  /\ \/ cb[c].pc = "dm" /\ "rolesAdd" \in cb[c].calls
                     \/ /\ cb[c].pc = "membersFetch"
                        /\ "rolesAdd" \notin cb[c].calls
                        /\ hasRole(members, p.userId, p.guildId, cb[c].roleId)]_vars

\* the success page after member.roles.add succeeded and member.send failed
C31_Witness ==
    \E c \in Callbacks :
        /\ cb[c].pc = "done"
        /\ cb[c].page = PageSuccess
        /\ "rolesAdd" \in cb[c].calls
        /\ cb[c].dm = "failed"
        /\ <<Parsed(c).userId, Parsed(c).guildId, cb[c].roleId>> \in members

----------------------------------------------------------------------------
(* A callback waiting on Discord, checked under SpecHang *)

\* the awaits of /callback on the token endpoint, on /users/@me and inside
\* assignVerifiedRole
Outbound == {"token", "userinfo", "membersFetch", "rolesAdd", "dm"}

\* the request waits for an outbound call to end
Suspended(c) == cb[c].pc \in Outbound

\* whatever the other handlers and the timer are at, their next step can be taken
OthersCanProceed(c) ==
    /\ \A d \in Callbacks \ {c} :
          /\ cb[d].pc = "idle"
                => \A u \in Users : ENABLED CallbackRequest(d, TRUE, Join(<<u, G7, TokA>>))
          /\ cb[d].pc = "persist" => ENABLED CallbackPersistDone(d, TRUE)
    /\ \A b \in Buttons :
          /\ btn[b].pc = "idle" => \A u \in Users : ENABLED ButtonClick(b, u, G7)
          /\ btn[b].pc = "membersFetch" => ENABLED ButtonFetchDone(b, TRUE, TokA)
          /\ btn[b].pc = "persist" => ENABLED ButtonPersistDone(b, TRUE)
    /\ sweep.pc = "idle" => ENABLED CleanupRun
    /\ sweep.pc = "persist" => ENABLED CleanupPersistDone(TRUE)

\* C32: the session a request redeems leaves the store in the step of its verify(),
\* before any outbound call; while the request waits for an outbound call the
\* next step of every other verify(), addPending and cleanup() can be taken, for
\* either user, and the steps of the waiting request leave the store as it is.
C32_NoLockWhileSuspended ==
    /\ [](\A c \in Callbacks : Suspended(c) => OthersCanProceed(c))
    /\ [][\A c \in Callbacks :
            /\ (Redeems(c) /\ cb'[c].data # NoData)
                  => /\ ~MapHas(store', Presented(c).userId)
                     /\ cb'[c].pc = "persist"
            /\ (Suspended(c) /\ cb'[c] # cb[c]) => store' = store]_vars

\* the request of user 42 still waits for the token endpoint; since its verify()
\* user 99 has clicked, opened the link and been answered
C32_Witness ==
    /\ cb[1].pc = "token"
    /\ cb[1].data # NoData
    /\ cb[1].data[1].timestamp = 0
    /\ now = 2 * verifyExpirationTime
    /\ cb[2].pc = "done"
    /\ "token" \in cb[2].calls
    /\ cb[2].data # NoData
    /\ cb[2].data[1].timestamp = now
    /\ store = EmptyMap

----------------------------------------------------------------------------
(* The click in a guild without settings, checked under Spec *)

\* the click of user u in guild g is taken up and goes on towards addPending
StartsCreate(b, u, g) == ButtonClick(b, u, g) /\ btn'[b].pc = "membersFetch"

\* C33: in a guild that has no stored settings a click on Verify is taken up like
\* any other: the handler goes on to guild.members.fetch and addPending.
C33_CreateWithoutSettings ==
    \A b \in Buttons, g \in Guilds :
        (btn[b].pc = "idle" /\ ~MapHas(settings, g)) => ENABLED StartsCreate(b, U42, g)

----------------------------------------------------------------------------
(* The configured expiration window, checked under SpecStore *)

\* C34: whatever value config.verification.expirationTime has, verify() returns
\* the record of a stored session with the presented state exactly when its age is
\* at most that value, and a cleanup() that removes sessions keeps exactly those
\* whose age is at most that value.
C34_WindowIsConfigurable ==
    [][\A w \in ConfiguredWindows :
          /\ \A c \in Callbacks :
                Redeems(c) =>
                    LET u == Presented(c).userId
                    IN  (MapHas(store, u) /\ store[u].state = Presented(c).stateToken)
                            => ((cb'[c].data # NoData) <=> (Age(u) <= w))
          /\ Sweeps => DOMAIN store' = {u \in DOMAIN store : Age(u) <= w}]_vars

====
